---- MODULE Spec2Model ----
(***************************************************************************)
(* A model of airbyte/_processors/sql/bigquery.py: BigQuerySqlProcessor,   *)
(* its two memo fields, and the warehouse tables its statements and load   *)
(* jobs act on.  Each caller thread runs one processor operation at a      *)
(* time; an operation advances one warehouse interaction per step.         *)
(***************************************************************************)
EXTENDS Integers, Sequences, FiniteSets, TLC

\* ------------------------------------------------------------ bounds
\* Longest file list handed to one batch.
MaxFiles == 2
\* Operations the batch-driving loop invokes in one run.
MaxCalls == 2

\* ------------------------------------------------------------ universe
Threads == {"t1", "t2"}
MainThread == "t1"
Streams == {"users", "orders"}
BatchIds == {"b1", "b2"}
\* The stream and batch the sequential driving loop works on; the other stream's
\* tables stand by in the same dataset.
DrivenStreams == {"users"}
DrivenBatchIds == {"b1"}
FileRefs == 1..MaxFiles
None == "None"
SchemaName == "ds"
\* Row marker of data that was in a final table before the run started: a row
\* that belongs to no file of a batch.
OldRow == MaxFiles + 1

Range(q) == {q[i] : i \in 1..Len(q)}
\* File lists of a batch: the first n files in ascending and in descending order,
\* the empty list included.
FileLists ==
  {[i \in 1..n |-> i] : n \in 0..MaxFiles} \cup {[i \in 1..n |-> n + 1 - i] : n \in 0..MaxFiles}

\* ------------------------------------------------------------ names
\* Every stream is given the same final table name.
FinalNameShared(stream) == "users"

\* The final table of a stream bears the stream's name.
FinalName(stream) == stream
TempName(stream, batch) == stream \o "_" \o batch
DeletionName(final_table_name) == final_table_name \o "_deleteme"
fully_qualified(table_name) == [schema |-> SchemaName, table |-> table_name]

FinalNames == {FinalName(s) : s \in Streams}
TempNames == {TempName(s, b) : s \in Streams, b \in BatchIds}

\* ------------------------------------------------------------ errors
NoContext == [k \in {} |-> None]
Error(type, msg) == [type |-> type, msg |-> msg, context |-> NoContext]
NoErr == Error("none", <<>>)
\* Messages are token lists; the code looks for the text "already exists" in them.
AlreadyExistsErr == Error("Conflict", <<"dataset", "already", "exists">>)
AccessDeniedErr == Error("Forbidden", <<"access", "denied">>)
NotFoundErr == Error("NotFound", <<"not", "found">>)
DuplicateErr == Error("Conflict", <<"table", "already", "exists">>)
JobFailedErr == Error("BadRequest", <<"load", "job", "failed">>)
CredentialsErr == Error("DefaultCredentialsError", <<"no", "credentials">>)
FinalNoneErr == Error("PyAirbyteInternalError", <<"final_table_name", "cannot", "be", "None">>)
TempNoneErr == Error("PyAirbyteInternalError", <<"temp_table_name", "cannot", "be", "None">>)

\* "needle in str(ex)": needle occurs as a contiguous run of the message.
Contains(msg, needle) ==
  \E i \in 1..(Len(msg) - Len(needle) + 1) : SubSeq(msg, i, i + Len(needle) - 1) = needle

IsAlreadyExists(ex) == Contains(ex.msg, <<"already", "exists">>)

VARIABLES
  schema_exists,   \* self._schema_exists: None or "True"
  credentials,     \* self._credentials: None or the resolved handle
  credentials_path, \* self.cache.credentials_path: None or a file path
  nsExists,        \* warehouse: the dataset exists
  tables,          \* warehouse: table name -> [origin, rows]
  createLog,       \* the warehouse's answers to the create-schema commands sent so far
  credReads,       \* reads of the credential source so far
  calls,           \* operations invoked so far
  pc,              \* per thread: position in the running operation
  loc              \* per thread: arguments, locals and result of the operation

vars == <<schema_exists, credentials, credentials_path, nsExists, tables, createLog, credReads, calls, pc, loc>>

EmptyTables == [n \in {} |-> 0]

Blank ==
  [op |-> "none", commit |-> FALSE, stream |-> None, batch |-> None, files |-> <<>>,
   temp |-> None, final |-> None, idx |-> 0, jobs |-> <<>>, script |-> <<>>,
   sent |-> <<>>, ex |-> NoErr, pre |-> EmptyTables, preSwap |-> EmptyTables,
   stage |-> "none", status |-> "none", err |-> NoErr, value |-> None,
   prior |-> [step |-> 0, err |-> NoErr, data |-> [origin |-> None, rows |-> <<>>]],
   first |-> [status |-> "none", err |-> NoErr, data |-> [origin |-> None, rows |-> <<>>]],
   hit |-> FALSE, descriptor |-> None, listed |-> <<>>]

OldTable(name) == [origin |-> name, rows |-> <<OldRow>>]

Init ==
  /\ schema_exists = None
  /\ credentials = None
  /\ credentials_path \in {None, "/secrets/sa.json"}
  /\ nsExists \in BOOLEAN
  /\ \E present \in SUBSET FinalNames :
       tables = [n \in present |-> OldTable(n)]
  /\ (tables # EmptyTables => nsExists)
  /\ createLog = <<>>
  /\ credReads = 0
  /\ calls = 0
  /\ pc = [t \in Threads |-> "idle"]
  /\ loc = [t \in Threads |-> Blank]

\* ------------------------------------------------------------ call protocol
AllIdle == \A t \in Threads : pc[t] = "idle"

Begin(t, first, rec) ==
  /\ pc[t] = "idle"
  /\ calls < MaxCalls
  /\ calls' = calls + 1
  /\ pc' = [pc EXCEPT ![t] = first]
  /\ loc' = [loc EXCEPT ![t] = rec]

Return(t, rec, v) ==
  /\ pc' = [pc EXCEPT ![t] = "done"]
  /\ loc' = [loc EXCEPT ![t] = [rec EXCEPT !.status = "ok", !.value = v]]

Raise(t, rec, e) ==
  /\ pc' = [pc EXCEPT ![t] = "done"]
  /\ loc' = [loc EXCEPT ![t] = [rec EXCEPT !.status = "raised", !.err = e]]

Goto(t, rec, next) ==
  /\ pc' = [pc EXCEPT ![t] = next]
  /\ loc' = [loc EXCEPT ![t] = rec]

\* The caller takes the result; the thread is free for the next operation.
Release(t) ==
  /\ pc[t] = "done"
  /\ pc' = [pc EXCEPT ![t] = "idle"]
  /\ loc' = [loc EXCEPT ![t] = Blank]
  /\ UNCHANGED <<schema_exists, credentials, credentials_path, nsExists, tables, createLog, credReads, calls>>

\* ------------------------------------------------------------ _ensure_schema_exists
CreateSchemaStmt == [kind |-> "create_schema", schema |-> SchemaName]

StartEnsure(t) ==
  /\ Begin(t, "ensure_check", [Blank EXCEPT !.op = "ensure", !.stage = "ensure", !.pre = tables])
  /\ UNCHANGED <<schema_exists, credentials, credentials_path, nsExists, tables, createLog, credReads>>

\* What follows a finished ensure step: the end of the call, or the load of a commit.
AfterEnsure(t, rec) ==
  IF rec.commit THEN Goto(t, [rec EXCEPT !.stage = "load"], "load_create")
  ELSE Return(t, rec, None)

\* A check that drops the memo and asks the warehouse again on every call.
EnsureCheckRevalidates(t) ==
  /\ pc[t] = "ensure_check"
  /\ schema_exists' = None
  /\ Goto(t, loc[t], "ensure_exec")
  /\ UNCHANGED <<credentials, credentials_path, nsExists, tables, createLog, credReads, calls>>

\* if self._schema_exists: return
EnsureCheck(t) ==
  /\ pc[t] = "ensure_check"
  /\ IF schema_exists = "True"
     THEN AfterEnsure(t, loc[t])
     ELSE Goto(t, loc[t], "ensure_exec")
  /\ UNCHANGED <<schema_exists, credentials, credentials_path, nsExists, tables, createLog, credReads, calls>>

\* self._execute_sql("CREATE SCHEMA IF NOT EXISTS ..."): the warehouse answers.
EnsureExec(t) ==
  /\ pc[t] = "ensure_exec"
  /\ \E outcome \in {NoErr, AlreadyExistsErr, AccessDeniedErr} :
       /\ outcome = AlreadyExistsErr => nsExists
       /\ nsExists' = IF outcome = NoErr THEN TRUE ELSE nsExists
       /\ createLog' = Append(createLog, outcome)
       /\ Goto(t, [loc[t] EXCEPT !.ex = outcome,
                                 !.sent = Append(@, CreateSchemaStmt)], "ensure_handle")
  /\ UNCHANGED <<schema_exists, credentials, credentials_path, tables, credReads, calls>>

\* A handler that re-raises every warehouse error, "already exists" included.
EnsureHandleRaisesOnExists(t) ==
  /\ pc[t] = "ensure_handle"
  /\ IF loc[t].ex # NoErr
     THEN /\ Raise(t, loc[t], loc[t].ex)
          /\ UNCHANGED schema_exists
     ELSE /\ schema_exists' = "True"
          /\ AfterEnsure(t, [loc[t] EXCEPT !.ex = NoErr])
  /\ UNCHANGED <<credentials, credentials_path, nsExists, tables, createLog, credReads, calls>>

\* A handler that never records the memo.
EnsureHandleForgetsMemo(t) ==
  /\ pc[t] = "ensure_handle"
  /\ IF loc[t].ex # NoErr /\ ~IsAlreadyExists(loc[t].ex)
     THEN Raise(t, loc[t], loc[t].ex)
     ELSE AfterEnsure(t, [loc[t] EXCEPT !.ex = NoErr])
  /\ UNCHANGED <<schema_exists, credentials, credentials_path, nsExists, tables, createLog, credReads, calls>>

\* A handler that records the memo on every path, the raising one included.
EnsureHandleMemoOnFailure(t) ==
  /\ pc[t] = "ensure_handle"
  /\ schema_exists' = "True"
  /\ IF loc[t].ex # NoErr /\ ~IsAlreadyExists(loc[t].ex)
     THEN Raise(t, loc[t], loc[t].ex)
     ELSE AfterEnsure(t, [loc[t] EXCEPT !.ex = NoErr])
  /\ UNCHANGED <<credentials, credentials_path, nsExists, tables, createLog, credReads, calls>>

\* except Exception as ex: if "already exists" not in str(ex): raise
\* self._schema_exists = True
EnsureHandle(t) ==
  /\ pc[t] = "ensure_handle"
  /\ IF loc[t].ex # NoErr /\ ~IsAlreadyExists(loc[t].ex)
     THEN /\ Raise(t, loc[t], loc[t].ex)
          /\ UNCHANGED schema_exists
     ELSE /\ schema_exists' = "True"
          /\ AfterEnsure(t, [loc[t] EXCEPT !.ex = NoErr])
  /\ UNCHANGED <<credentials, credentials_path, nsExists, tables, createLog, credReads, calls>>

\* ------------------------------------------------------------ _get_credentials
CredsFor(path) == IF path # None THEN "service_account" ELSE "ambient_default"

\* Where an operation goes once it holds the credentials.
AfterCredentials(t, rec, creds) ==
  CASE rec.op = "get_credentials" -> Return(t, rec, creds)
    [] rec.op = "table_exists" -> Goto(t, rec, "table_get")
    [] OTHER -> Goto(t, rec, "load_loop")

\* A _get_credentials that resolves the credentials anew on every call.
GetCredentialsNoCache(t) ==
  /\ pc[t] = "get_creds"
  /\ credReads' = credReads + 1
  /\ \E ok \in BOOLEAN :
       IF ok
       THEN /\ credentials' = CredsFor(credentials_path)
            /\ AfterCredentials(t, [loc[t] EXCEPT !.hit = credentials # None],
                                CredsFor(credentials_path))
       ELSE /\ UNCHANGED credentials
            /\ Raise(t, loc[t], CredentialsErr)
  /\ UNCHANGED <<schema_exists, credentials_path, nsExists, tables, createLog, calls>>

\* if self._credentials is None: read the file at credentials_path, or else the
\* ambient default; return self._credentials
GetCredentials(t) ==
  /\ pc[t] = "get_creds"
  /\ IF credentials # None
     THEN /\ AfterCredentials(t, [loc[t] EXCEPT !.hit = TRUE], credentials)
          /\ UNCHANGED <<credentials, credReads>>
     ELSE /\ credReads' = credReads + 1
          /\ \E ok \in BOOLEAN :
               IF ok
               THEN /\ credentials' = CredsFor(credentials_path)
                    /\ AfterCredentials(t, loc[t], CredsFor(credentials_path))
               ELSE /\ UNCHANGED credentials
                    /\ Raise(t, loc[t], CredentialsErr)
  /\ UNCHANGED <<schema_exists, credentials_path, nsExists, tables, createLog, calls>>

StartGetCredentials(t) ==
  /\ Begin(t, "get_creds", [Blank EXCEPT !.op = "get_credentials", !.stage = "creds", !.pre = tables])
  /\ UNCHANGED <<schema_exists, credentials, credentials_path, nsExists, tables, createLog, credReads>>

\* ------------------------------------------------------------ _write_files_to_new_table
NewTable(name) == [origin |-> name, rows |-> <<>>]

\* A loadBatch that goes straight to the load jobs, the staging table not created.
StartLoadWithoutStaging(t, stream, batch, files) ==
  /\ Begin(t, "get_creds",
           [Blank EXCEPT !.op = "load", !.stage = "load", !.stream = stream,
                         !.batch = batch, !.files = files, !.pre = tables,
                         !.temp = TempName(stream, batch), !.idx = 1])
  /\ UNCHANGED <<schema_exists, credentials, credentials_path, nsExists, tables, createLog, credReads>>

StartLoad(t, stream, batch, files) ==
  /\ Begin(t, "load_create",
           [Blank EXCEPT !.op = "load", !.stage = "load", !.stream = stream,
                         !.batch = batch, !.files = files, !.pre = tables])
  /\ UNCHANGED <<schema_exists, credentials, credentials_path, nsExists, tables, createLog, credReads>>

\* temp_table_name = self._create_table_for_loading(stream_name, batch_id)
CreateTableForLoading(t) ==
  /\ pc[t] = "load_create"
  /\ LET name == TempName(loc[t].stream, loc[t].batch)
     IN IF ~nsExists
        THEN Raise(t, loc[t], NotFoundErr) /\ UNCHANGED tables
        ELSE IF name \in DOMAIN tables
        THEN Raise(t, loc[t], DuplicateErr) /\ UNCHANGED tables
        ELSE \E ok \in BOOLEAN :
               IF ok
               THEN /\ tables' = tables @@ (name :> NewTable(name))
                    /\ Goto(t, [loc[t] EXCEPT !.temp = name, !.idx = 1], "get_creds")
               ELSE Raise(t, loc[t], AccessDeniedErr) /\ UNCHANGED tables
  /\ UNCHANGED <<schema_exists, credentials, credentials_path, nsExists, createLog, credReads, calls>>

\* A load aimed at the stream's final table instead of the staging table.
LoadDestinationFinal(rec) == FinalName(rec.stream)

\* table_id = f"{project}.{dataset}.{temp_table_name}"
LoadDestination(rec) == rec.temp

\* A loop that submits the next file without waiting for the job just submitted.
SubmitLoadJobWithoutWaiting(t) ==
  /\ pc[t] = "load_loop"
  /\ IF loc[t].idx > Len(loc[t].files)
     THEN IF loc[t].commit
          THEN Goto(t, [loc[t] EXCEPT !.stage = "swap", !.final = FinalName(loc[t].stream)],
                    "swap_check")
          ELSE Return(t, loc[t], loc[t].temp)
     ELSE Goto(t, [loc[t] EXCEPT !.jobs = Append(@, [file |-> loc[t].files[loc[t].idx],
                                                       destination |-> LoadDestination(loc[t]),
                                                       state |-> "running"]),
                                 !.idx = @ + 1],
               "load_loop")
  /\ UNCHANGED <<schema_exists, credentials, credentials_path, nsExists, tables, createLog, credReads, calls>>

\* for file_path in files: load_job = client.load_table_from_file(...)
\* after the last file: return temp_table_name
SubmitLoadJob(t) ==
  /\ pc[t] = "load_loop"
  /\ IF loc[t].idx > Len(loc[t].files)
     THEN IF loc[t].commit
          THEN Goto(t, [loc[t] EXCEPT !.stage = "swap", !.final = FinalName(loc[t].stream)],
                    "swap_check")
          ELSE Return(t, loc[t], loc[t].temp)
     ELSE Goto(t, [loc[t] EXCEPT !.jobs = Append(@, [file |-> loc[t].files[loc[t].idx],
                                                       destination |-> LoadDestination(loc[t]),
                                                       state |-> "running"])],
               "load_wait")
  /\ UNCHANGED <<schema_exists, credentials, credentials_path, nsExists, tables, createLog, credReads, calls>>

\* A wait that does not look at the job's outcome: a failed job is passed over.
AwaitLoadJobIgnoringFailure(t) ==
  /\ pc[t] = "load_wait"
  /\ LET n == Len(loc[t].jobs)
         job == loc[t].jobs[n]
     IN \E ok \in BOOLEAN :
          IF ok /\ job.destination \in DOMAIN tables
          THEN /\ tables' = [tables EXCEPT ![job.destination].rows = Append(@, job.file)]
               /\ Goto(t, [loc[t] EXCEPT !.jobs[n].state = "done", !.idx = @ + 1], "load_loop")
          ELSE /\ UNCHANGED tables
               /\ Goto(t, [loc[t] EXCEPT !.jobs[n].state = "failed", !.idx = @ + 1], "load_loop")
  /\ UNCHANGED <<schema_exists, credentials, credentials_path, nsExists, createLog, credReads, calls>>

\* _ = load_job.result(): the job reaches a terminal state; a failed job raises.
AwaitLoadJob(t) ==
  /\ pc[t] = "load_wait"
  /\ LET n == Len(loc[t].jobs)
         job == loc[t].jobs[n]
     IN \E ok \in BOOLEAN :
          IF ok /\ job.destination \in DOMAIN tables
          THEN /\ tables' = [tables EXCEPT ![job.destination].rows = Append(@, job.file)]
               /\ Goto(t, [loc[t] EXCEPT !.jobs[n].state = "done", !.idx = @ + 1], "load_loop")
          ELSE /\ UNCHANGED tables
               /\ Raise(t, [loc[t] EXCEPT !.jobs[n].state = "failed"], JobFailedErr)
  /\ UNCHANGED <<schema_exists, credentials, credentials_path, nsExists, createLog, credReads, calls>>

\* ------------------------------------------------------------ _swap_temp_table_with_final_table
RenameStmt(from, to) == [kind |-> "rename", table |-> from, to |-> to]
DropStmt(table) == [kind |-> "drop", table |-> table, to |-> None]

\* A swap script that derives the deletion name from the staging name.
SwapCommandsDeletionFromTemp(temp_table_name, final_table_name) ==
  LET deletion_name == DeletionName(temp_table_name)
  IN <<RenameStmt(fully_qualified(final_table_name), deletion_name),
       RenameStmt(fully_qualified(temp_table_name), final_table_name),
       DropStmt(fully_qualified(deletion_name))>>

\* A swap script that leaves out the final DROP statement.
SwapCommandsNoDrop(temp_table_name, final_table_name) ==
  LET deletion_name == DeletionName(final_table_name)
  IN <<RenameStmt(fully_qualified(final_table_name), deletion_name),
       RenameStmt(fully_qualified(temp_table_name), final_table_name)>>

\* commands = "\n".join([ALTER ... RENAME TO deletion; ALTER ... RENAME TO final; DROP ...])
SwapCommands(temp_table_name, final_table_name) ==
  LET deletion_name == DeletionName(final_table_name)
  IN <<RenameStmt(fully_qualified(final_table_name), deletion_name),
       RenameStmt(fully_qualified(temp_table_name), final_table_name),
       DropStmt(fully_qualified(deletion_name))>>

StartSwap(t, stream, temp, final) ==
  /\ Begin(t, "swap_check",
           [Blank EXCEPT !.op = "swap", !.stage = "swap",
                         !.temp = temp, !.final = final, !.pre = tables])
  /\ UNCHANGED <<schema_exists, credentials, credentials_path, nsExists, tables, createLog, credReads>>

\* A swap that checks only final_table_name for None.
SwapSubmitNoTempCheck(t) ==
  /\ pc[t] = "swap_check"
  /\ IF loc[t].final = None THEN Raise(t, loc[t], FinalNoneErr)
     ELSE LET commands == SwapCommands(loc[t].temp, loc[t].final)
          IN Goto(t, [loc[t] EXCEPT !.script = commands, !.sent = @ \o commands,
                                    !.preSwap = tables], "swap_exec")
  /\ UNCHANGED <<schema_exists, credentials, credentials_path, nsExists, tables, createLog, credReads, calls>>

\* The two None checks, then self._execute_sql(commands); stream_name is unused.
SwapSubmit(t) ==
  /\ pc[t] = "swap_check"
  /\ IF loc[t].final = None THEN Raise(t, loc[t], FinalNoneErr)
     ELSE IF loc[t].temp = None THEN Raise(t, loc[t], TempNoneErr)
     ELSE LET commands == SwapCommands(loc[t].temp, loc[t].final)
          IN Goto(t, [loc[t] EXCEPT !.script = commands, !.sent = @ \o commands,
                                    !.preSwap = tables], "swap_exec")
  /\ UNCHANGED <<schema_exists, credentials, credentials_path, nsExists, tables, createLog, credReads, calls>>

Without(tbls, name) == [n \in DOMAIN tbls \ {name} |-> tbls[n]]

\* The warehouse's answer to one statement: the error it reports, or NoErr.
StmtError(tbls, stmt) ==
  IF stmt.table.schema # SchemaName \/ stmt.table.table \notin DOMAIN tbls THEN NotFoundErr
  ELSE IF stmt.kind = "rename" /\ stmt.to \in DOMAIN tbls THEN DuplicateErr
  ELSE NoErr

\* The tables after one statement has been applied.
StmtEffect(tbls, stmt) ==
  IF stmt.kind = "rename"
  THEN Without(tbls, stmt.table.table) @@ (stmt.to :> tbls[stmt.table.table])
  ELSE Without(tbls, stmt.table.table)

\* The warehouse runs the next statement of the script; the script stops at the
\* first statement that fails, and _execute_sql raises its error.
SwapExec(t) ==
  /\ pc[t] = "swap_exec"
  /\ LET stmt == Head(loc[t].script)
         rest == Tail(loc[t].script)
         e == StmtError(tables, stmt)
     IN IF e # NoErr
        THEN Raise(t, loc[t], e) /\ UNCHANGED tables
        ELSE \E ok \in BOOLEAN :
               IF ok
               THEN /\ tables' = StmtEffect(tables, stmt)
                    /\ IF rest = <<>>
                       THEN Return(t, [loc[t] EXCEPT !.script = rest],
                                   IF loc[t].commit THEN loc[t].final ELSE None)
                       ELSE Goto(t, [loc[t] EXCEPT !.script = rest], "swap_exec")
               ELSE Raise(t, loc[t], AccessDeniedErr) /\ UNCHANGED tables
  /\ UNCHANGED <<schema_exists, credentials, credentials_path, nsExists, createLog, credReads, calls>>

\* ------------------------------------------------------------ commitBatch
\* ensureNamespace, then loadBatch, then swap onto the stream's final name.
StartCommit(t, stream, batch, files) ==
  /\ Begin(t, "ensure_check",
           [Blank EXCEPT !.op = "commit", !.commit = TRUE, !.stage = "ensure",
                         !.stream = stream, !.batch = batch, !.files = files, !.pre = tables])
  /\ UNCHANGED <<schema_exists, credentials, credentials_path, nsExists, tables, createLog, credReads>>

\* ------------------------------------------------------------ _table_exists
InputErr(table_name) ==
  [type |-> "PyAirbyteInputError",
   msg |-> <<"Invalid", "project", "name", "or", "dataset", "name">>,
   context |-> [k \in {"table_id", "table_name", "project_name", "dataset_name"} |->
                  IF k = "table_name" THEN table_name
                  ELSE IF k = "table_id" THEN "project." \o SchemaName \o "." \o table_name
                  ELSE IF k = "dataset_name" THEN SchemaName ELSE "project"]]

StartTableExists(t, table_name) ==
  /\ Begin(t, "get_creds",
           [Blank EXCEPT !.op = "table_exists", !.stage = "table_exists",
                         !.final = table_name, !.pre = tables])
  /\ UNCHANGED <<schema_exists, credentials, credentials_path, nsExists, tables, createLog, credReads>>

\* client.get_table(table_id): NotFound -> False, ValueError -> PyAirbyteInputError
GetTable(t) ==
  /\ pc[t] = "table_get"
  /\ \E valid \in BOOLEAN :
       IF ~valid THEN Raise(t, loc[t], InputErr(loc[t].final))
       ELSE Return(t, loc[t], IF loc[t].final \in DOMAIN tables THEN "True" ELSE "False")
  /\ UNCHANGED <<schema_exists, credentials, credentials_path, nsExists, tables, createLog, credReads, calls>>

\* ------------------------------------------------------------ _get_tables_list
\* A listed name is a token list: <<table>>, or <<schema, ".", table>> when qualified.
Listed(name, qualified) == IF qualified THEN <<SchemaName, ".", name>> ELSE <<name>>

schema_prefix == <<SchemaName, ".">>

StartsWith(q, prefix) == Len(q) >= Len(prefix) /\ SubSeq(q, 1, Len(prefix)) = prefix

\* A strip that cuts the length of the prefix off every name, qualified or not.
StripSchemaUnconditionally(table) == SubSeq(table, Len(schema_prefix) + 1, Len(table))

\* table.replace(schema_prefix, "", 1) if table.startswith(schema_prefix) else table
StripSchema(table) ==
  IF StartsWith(table, schema_prefix)
  THEN SubSeq(table, Len(schema_prefix) + 1, Len(table))
  ELSE table

RECURSIVE SetToSeq(_)
SetToSeq(S) == IF S = {} THEN <<>> ELSE LET x == CHOOSE y \in S : TRUE IN <<x>> \o SetToSeq(S \ {x})

StartListTables(t) ==
  /\ Begin(t, "list_tables", [Blank EXCEPT !.op = "list_tables", !.stage = "list_tables", !.pre = tables])
  /\ UNCHANGED <<schema_exists, credentials, credentials_path, nsExists, tables, createLog, credReads>>

\* tables = inspector.get_table_names(schema=...): the warehouse lists each
\* table of the dataset, qualified with the schema name or bare;
\* return [StripSchema(table) for table in tables]
GetTablesList(t) ==
  /\ pc[t] = "list_tables"
  /\ \E qualified \in [DOMAIN tables -> BOOLEAN] :
       LET names == SetToSeq(DOMAIN tables)
           listed == [i \in 1..Len(names) |-> Listed(names[i], qualified[names[i]])]
       IN Return(t, [loc[t] EXCEPT !.listed = listed],
                 [i \in 1..Len(listed) |-> StripSchema(listed[i])])
  /\ UNCHANGED <<schema_exists, credentials, credentials_path, nsExists, tables, createLog, credReads, calls>>

\* ------------------------------------------------------------ specification
\* One step of the operation thread t is running.
Step(t) ==
  \/ EnsureCheck(t)
  \/ EnsureExec(t)
  \/ EnsureHandle(t)
  \/ GetCredentials(t)
  \/ CreateTableForLoading(t)
  \/ SubmitLoadJob(t)
  \/ AwaitLoadJob(t)
  \/ SwapSubmit(t)
  \/ SwapExec(t)
  \/ GetTable(t)
  \/ GetTablesList(t)
  \/ Release(t)

\* A caller invokes an operation on one of the given streams and batches.
Start(t, streams, batches) ==
  \/ StartEnsure(t)
  \/ \E s \in streams, b \in batches, fs \in FileLists : StartLoad(t, s, b, fs)
  \/ \E s \in streams,
        temp \in {TempName(x, b) : x \in streams, b \in batches} \cup {None},
        final \in {FinalName(x) : x \in streams} \cup {None} :
       StartSwap(t, s, temp, final)
  \/ \E s \in streams, b \in batches, fs \in FileLists : StartCommit(t, s, b, fs)
  \/ StartGetCredentials(t)
  \/ \E n \in {FinalName(x) : x \in streams} \cup {TempName(x, b) : x \in streams, b \in batches} :
       StartTableExists(t, n)
  \/ StartListTables(t)

\* The batch-driving loop is sequential: it starts an operation only when none
\* is running.
Next ==
  \/ AllIdle /\ Start(MainThread, DrivenStreams, DrivenBatchIds)
  \/ \E t \in Threads : Step(t)

Spec == Init /\ [][Next]_vars

\* ------------------------------------------------------------ concurrent callers
\* Each calling thread works on batches of its own: two batches in progress at
\* the same time never share a batch id.
BatchOf(t) == IF t = MainThread THEN "b1" ELSE "b2"

\* A calling thread invokes ensureNamespace or commitBatch without waiting for
\* the other thread: the component takes no lock.  Concurrent runs are followed
\* for as many calls as there are threads, with batches of at most one file.
StartConc(t) ==
  /\ calls < Cardinality(Threads)
  /\ \/ StartEnsure(t)
     \/ \E s \in (IF t = MainThread THEN DrivenStreams ELSE Streams),
           fs \in {l \in FileLists : Len(l) <= 1} :
          StartCommit(t, s, BatchOf(t), fs)

\* One step of a running ensureNamespace or commitBatch.
StepConc(t) ==
  \/ EnsureCheck(t)
  \/ EnsureExec(t)
  \/ EnsureHandle(t)
  \/ GetCredentials(t)
  \/ CreateTableForLoading(t)
  \/ SubmitLoadJob(t)
  \/ AwaitLoadJob(t)
  \/ SwapSubmit(t)
  \/ SwapExec(t)
  \/ Release(t)

NextConc == \E t \in Threads : StartConc(t) \/ StepConc(t)

\* Two caller threads drive one processor instance with no serialization.
SpecConc == Init /\ [][NextConc]_vars

\* ------------------------------------------------------------ retrying a failed swap
\* The statement of the script at which a swap that raised in the warehouse stopped.
FailedStep(rec) == Len(SwapCommands(rec.temp, rec.final)) - Len(rec.script) + 1

\* The caller of a swap that failed in the warehouse calls swap again with the
\* same staging and final identities (once); the call remembers where the first
\* attempt stopped and what the staging table held.
RetrySwap(t) ==
  /\ pc[t] = "done"
  /\ loc[t].stage = "swap"
  /\ loc[t].status = "raised"
  /\ loc[t].script # <<>>
  /\ loc[t].prior.step = 0
  /\ calls < MaxCalls
  /\ calls' = calls + 1
  /\ pc' = [pc EXCEPT ![t] = "swap_check"]
  /\ loc' = [loc EXCEPT ![t] =
               [Blank EXCEPT !.op = "swap", !.stage = "swap",
                             !.temp = loc[t].temp, !.final = loc[t].final, !.pre = tables,
                             !.prior = [step |-> FailedStep(loc[t]),
                                        err |-> loc[t].err,
                                        data |-> IF loc[t].temp \in DOMAIN loc[t].preSwap
                                                 THEN loc[t].preSwap[loc[t].temp]
                                                 ELSE Blank.prior.data]]]
  /\ UNCHANGED <<schema_exists, credentials, credentials_path, nsExists, tables, createLog, credReads>>

NextRetry ==
  \/ Next
  \/ \E t \in Threads : RetrySwap(t)

\* The sequential driving loop with callers that retry a failed swap.
SpecRetry == Init /\ [][NextRetry]_vars

\* ------------------------------------------------------------ running a batch twice
\* The caller runs commitBatch again with the same stream, batch id and files as
\* the call that has just ended (once); the second call remembers how the first
\* ended and what it left under the final name.
RepeatCommit(t) ==
  /\ pc[t] = "done"
  /\ loc[t].commit
  /\ loc[t].first.status = "none"
  /\ calls < MaxCalls
  /\ calls' = calls + 1
  /\ pc' = [pc EXCEPT ![t] = "ensure_check"]
  /\ loc' = [loc EXCEPT ![t] =
               [Blank EXCEPT !.op = "commit", !.commit = TRUE, !.stage = "ensure",
                             !.stream = loc[t].stream, !.batch = loc[t].batch,
                             !.files = loc[t].files, !.pre = tables,
                             !.first = [status |-> loc[t].status,
                                        err |-> loc[t].err,
                                        data |-> IF FinalName(loc[t].stream) \in DOMAIN tables
                                                 THEN tables[FinalName(loc[t].stream)]
                                                 ELSE Blank.first.data]]]
  /\ UNCHANGED <<schema_exists, credentials, credentials_path, nsExists, tables, createLog, credReads>>

NextTwice ==
  \/ Next
  \/ \E t \in Threads : RepeatCommit(t)

\* The sequential driving loop with callers that run a batch a second time.
SpecTwice == Init /\ [][NextTwice]_vars

\* ------------------------------------------------------------ BigQueryTypeConverter
\* Column type descriptors: a JSON-schema type with an optional format.
Descriptors ==
  [type : {"string", "integer", "number", "boolean", "object", "array", "null", "exotic"},
   format : {None, "date", "date-time", "time"}]

\* The dialect-neutral mapping of the parent converter: the generic SQL type
\* class of a descriptor; kinds it does not recognise fall back to the string type.
GenericType(d) ==
  CASE d.type = "string" /\ d.format = "date" -> "DATE"
    [] d.type = "string" /\ d.format = "date-time" -> "TIMESTAMP"
    [] d.type = "string" /\ d.format = "time" -> "TIME"
    [] d.type = "string" -> "VARCHAR"
    [] d.type = "integer" -> "BIGINT"
    [] d.type = "number" -> "DECIMAL"
    [] d.type = "boolean" -> "BOOLEAN"
    [] d.type \in {"object", "array"} -> "JSON"
    [] OTHER -> "VARCHAR"

\* The classes a generic SQL type class derives from, itself included.
Mro(cls) ==
  CASE cls = "VARCHAR" -> {"VARCHAR", "String", "TypeEngine"}
    [] cls = "BIGINT" -> {"BIGINT", "BigInteger", "Integer", "TypeEngine"}
    [] cls = "DECIMAL" -> {"DECIMAL", "Numeric", "TypeEngine"}
    [] cls = "TIMESTAMP" -> {"TIMESTAMP", "DateTime", "TypeEngine"}
    [] OTHER -> {cls, "TypeEngine"}

isinstance(cls, base) == base \in Mro(cls)

\* get_string_type: return "String"
get_string_type == "String"

\* A converter whose override table has no entry for BIGINT.
to_sql_type_without_int64(json_schema_property_def) ==
  LET sql_type == GenericType(json_schema_property_def)
  IN IF isinstance(sql_type, "VARCHAR") THEN get_string_type
     ELSE sql_type

\* sql_type = super().to_sql_type(...); VARCHAR -> get_string_type();
\* BIGINT -> "INT64"; otherwise sql_type.__class__.__name__
to_sql_type(json_schema_property_def) ==
  LET sql_type == GenericType(json_schema_property_def)
  IN IF isinstance(sql_type, "VARCHAR") THEN get_string_type
     ELSE IF isinstance(sql_type, "BIGINT") THEN "INT64"
     ELSE sql_type

StartResolve(t, d) ==
  /\ Begin(t, "resolve", [Blank EXCEPT !.op = "resolve", !.stage = "resolve", !.descriptor = d])
  /\ UNCHANGED <<schema_exists, credentials, credentials_path, nsExists, tables, createLog, credReads>>

\* The call computes the warehouse type and returns it; it reads and writes no
\* field of the processor.
Resolve(t) ==
  /\ pc[t] = "resolve"
  /\ Return(t, loc[t], to_sql_type(loc[t].descriptor))
  /\ UNCHANGED <<schema_exists, credentials, credentials_path, nsExists, tables, createLog, credReads, calls>>

NextTypes ==
  \/ \E t \in Threads, d \in Descriptors : StartResolve(t, d)
  \/ \E t \in Threads : Resolve(t)
  \/ \E t \in Threads : Release(t)

\* Callers resolving column type descriptors.
SpecTypes == Init /\ [][NextTypes]_vars

\* ------------------------------------------------------------ reading a finished call
\* Thread t has finished a swap (alone or as the last stage of a commit) whose
\* statements were sent to the warehouse.
SwapFinished(t) ==
  /\ pc[t] = "done"
  /\ loc[t].stage = "swap"
  /\ \E i \in 1..Len(loc[t].sent) : loc[t].sent[i].kind = "rename"

\* The call's failure, if any, came from the tables' state, not from an outage.
NoOutage(t) == loc[t].err # AccessDeniedErr

\* The swap left the staging data, and only it, under the final name.
SwappedIn(t) ==
  /\ loc[t].final \in DOMAIN tables
  /\ tables[loc[t].final] = loc[t].preSwap[loc[t].temp]
  /\ loc[t].temp \notin DOMAIN tables
  /\ DeletionName(loc[t].final) \notin DOMAIN tables

\* C1: a swap invoked when no table bears the final name (and none the deletion
\* name) while the staging table exists succeeds and leaves the staging data as
\* the only table under the final name, with no staging or deletion table left.
C1_FirstLoadSwapSucceeds ==
  \A t \in Threads :
    (/\ SwapFinished(t)
     /\ NoOutage(t)
     /\ loc[t].final \notin DOMAIN loc[t].preSwap
     /\ DeletionName(loc[t].final) \notin DOMAIN loc[t].preSwap
     /\ loc[t].temp \in DOMAIN loc[t].preSwap)
    => (loc[t].status = "ok" /\ SwappedIn(t))

\* C2: a swap invoked when a table bears the final name and whose every step
\* succeeds leaves the staging table's data under the final name, and no table
\* under the deletion name or the staging name.
C2_SwapReplacesFinal ==
  \A t \in Threads :
    (/\ SwapFinished(t)
     /\ loc[t].status = "ok"
     /\ loc[t].final \in DOMAIN loc[t].preSwap)
    => SwappedIn(t)

C2_Witness ==
  \E t \in Threads :
    /\ SwapFinished(t)
    /\ loc[t].status = "ok"
    /\ loc[t].final \in DOMAIN loc[t].preSwap
    /\ loc[t].preSwap[loc[t].final].rows = <<OldRow>>
    /\ tables[loc[t].final].rows # <<OldRow>>

\* A batch is a loadBatch call or a commitBatch call.
IsBatch(t) == loc[t].op \in {"load", "commit"}

\* Every file of the batch has a load job, in the supplied order, and every job
\* has ended successfully.
AllFilesLoaded(t) ==
  /\ Len(loc[t].jobs) = Len(loc[t].files)
  /\ \A i \in 1..Len(loc[t].jobs) :
       loc[t].jobs[i].file = loc[t].files[i] /\ loc[t].jobs[i].state = "done"

\* The table under the batch's final name is not the one the call started with.
FinalChanged(t) ==
  LET F == FinalName(loc[t].stream)
  IN /\ F \in DOMAIN tables
     /\ F \in DOMAIN loc[t].pre => tables[F] # loc[t].pre[F]

\* C3: in every state of a commitBatch run, a table that the run has put under
\* the final name is a staging table all of whose files were loaded, every load
\* job acknowledged complete, before the swap began.
C3_OnlyLoadedStagingSwapped ==
  \A t \in Threads :
    (loc[t].op = "commit" /\ FinalChanged(t))
    => /\ loc[t].stage = "swap"
       /\ AllFilesLoaded(t)
       /\ tables[FinalName(loc[t].stream)].rows = loc[t].files

C3_Witness ==
  \E t \in Threads :
    /\ loc[t].op = "commit"
    /\ pc[t] = "done"
    /\ loc[t].status = "ok"
    /\ FinalChanged(t)
    /\ Len(loc[t].files) = MaxFiles

\* The batch of t failed before its swap began.
FailedBeforeSwap(t) ==
  /\ IsBatch(t)
  /\ pc[t] = "done"
  /\ loc[t].status = "raised"
  /\ loc[t].stage # "swap"

\* C4: when a batch fails before the swap begins, every final table holds what
\* it held when the batch started (absent if it was absent), and no rename or
\* drop statement was sent.
C4_FailedBatchKeepsFinal ==
  \A t \in Threads :
    FailedBeforeSwap(t)
    => /\ \A F \in FinalNames :
            /\ F \in DOMAIN tables <=> F \in DOMAIN loc[t].pre
            /\ F \in DOMAIN tables => tables[F] = loc[t].pre[F]
       /\ \A i \in 1..Len(loc[t].sent) : loc[t].sent[i].kind \notin {"rename", "drop"}

C4_Witness ==
  \E t \in Threads :
    /\ FailedBeforeSwap(t)
    /\ loc[t].op = "commit"
    /\ Len(loc[t].jobs) = 2
    /\ loc[t].jobs[1].state = "done"
    /\ loc[t].jobs[2].state = "failed"
    /\ FinalName(loc[t].stream) \in DOMAIN tables

\* The load of the batch of t ended with the failure of one of its load jobs.
LoadJobFailed(t) ==
  /\ IsBatch(t)
  /\ pc[t] = "done"
  /\ loc[t].jobs # <<>>
  /\ loc[t].jobs[Len(loc[t].jobs)].state = "failed"

\* C5: when the load job of the k-th file fails, loadBatch fails with an error
\* that carries the stream, the batch id and the reference of that file, no job
\* is submitted for the later files, no staging identity is returned, and the
\* partially loaded staging table stays in place.
C5_LoadFailureCarriesContext ==
  \A t \in Threads :
    LoadJobFailed(t)
    => LET k == Len(loc[t].jobs)
       IN /\ loc[t].status = "raised"
          /\ loc[t].value = None
          /\ loc[t].jobs[k].file = loc[t].files[k]
          /\ loc[t].temp \in DOMAIN tables
          /\ tables[loc[t].temp].rows = SubSeq(loc[t].files, 1, k - 1)
          /\ {"stream", "batch_id", "file"} \subseteq DOMAIN loc[t].err.context
          /\ loc[t].err.context["stream"] = loc[t].stream
          /\ loc[t].err.context["batch_id"] = loc[t].batch
          /\ loc[t].err.context["file"] = loc[t].files[k]

\* C9: a swap called with an unset staging or final identity fails with the
\* invalid-arguments error before any statement is sent, and the tables are as
\* they were.
C9_SwapRejectsNone ==
  \A t \in Threads :
    (pc[t] = "done" /\ loc[t].op = "swap" /\ (loc[t].temp = None \/ loc[t].final = None))
    => /\ loc[t].status = "raised"
       /\ loc[t].err.type = "PyAirbyteInternalError"
       /\ loc[t].sent = <<>>
       /\ tables = loc[t].pre

C9_Witness ==
  \E t \in Threads :
    /\ pc[t] = "done"
    /\ loc[t].op = "swap"
    /\ loc[t].temp = None
    /\ loc[t].final # None
    /\ loc[t].final \in DOMAIN tables
    /\ loc[t].err = TempNoneErr

\* C10: load jobs are submitted in the supplied order, each job has ended
\* before the next is submitted, and the load returns the staging identity only
\* when the job of every file has ended successfully.
C10_LoadsInOrderAndAwaited ==
  \A t \in Threads :
    IsBatch(t)
    => /\ Len(loc[t].jobs) <= Len(loc[t].files)
       /\ \A i \in 1..Len(loc[t].jobs) :
            /\ loc[t].jobs[i].file = loc[t].files[i]
            /\ i < Len(loc[t].jobs) => loc[t].jobs[i].state = "done"
       /\ (loc[t].stage = "swap" \/ (pc[t] = "done" /\ loc[t].status = "ok"))
            => AllFilesLoaded(t)
       /\ (pc[t] = "done" /\ loc[t].status = "ok" /\ loc[t].op = "load")
            => loc[t].value = TempName(loc[t].stream, loc[t].batch)

C10_Witness ==
  \E t \in Threads :
    /\ loc[t].op = "load"
    /\ pc[t] = "done"
    /\ loc[t].status = "ok"
    /\ loc[t].files = <<2, 1>>
    /\ tables[loc[t].value].rows = <<2, 1>>

\* The warehouse's answer ex is a success or an "already exists" failure.
Benign(ex) == ex = NoErr \/ IsAlreadyExists(ex)

EnsureRaised(t) == pc[t] = "done" /\ loc[t].stage = "ensure" /\ loc[t].status = "raised"

C6_AtMostOneCreate ==
  (\A i \in 1..Len(createLog) : Benign(createLog[i]))
  => /\ Len(createLog) <= 1
     /\ \A t \in Threads : ~EnsureRaised(t)

C6_NoIOOnceEnsured == schema_exists = "True" => createLog' = createLog

\* C6: over a sequence of ensureNamespace calls that the warehouse answers with
\* success or an "already exists" error, at most one create command is sent, no
\* call fails, and once a call has succeeded no later call sends a command.
C6_EnsureIdempotent == [](C6_AtMostOneCreate) /\ [][C6_NoIOOnceEnsured]_vars

C6_Witness ==
  \E t \in Threads :
    /\ calls = 2
    /\ pc[t] = "done"
    /\ loc[t].op = "ensure"
    /\ loc[t].status = "ok"
    /\ loc[t].sent = <<>>
    /\ createLog = <<AlreadyExistsErr>>

C7_RaisedLeavesMemoUnset ==
  \A t \in Threads :
    EnsureRaised(t) => ~Benign(loc[t].err) /\ schema_exists # "True"

C7_Steps ==
  /\ \A t \in Threads :
       /\ (pc[t] = "ensure_handle" /\ pc'[t] # "ensure_handle")
            => IF Benign(loc[t].ex)
               THEN schema_exists' = "True" /\ loc'[t].status # "raised"
               ELSE /\ pc'[t] = "done"
                    /\ loc'[t].status = "raised"
                    /\ loc'[t].err = loc[t].ex
                    /\ schema_exists' = schema_exists
       /\ (pc[t] = "ensure_check" /\ pc'[t] # "ensure_check" /\ schema_exists # "True")
            => pc'[t] = "ensure_exec"
       /\ (pc[t] = "ensure_exec" /\ pc'[t] # "ensure_exec")
            => Len(createLog') = Len(createLog) + 1
  /\ (schema_exists # "True" /\ schema_exists' = "True")
       => \E t \in Threads : pc[t] = "ensure_handle" /\ Benign(loc[t].ex)

C8_MemoNeverReset == [][schema_exists = "True" => schema_exists' = "True"]_vars

C8_Witness ==
  \E t \in Threads :
    /\ schema_exists = "True"
    /\ pc[t] = "done"
    /\ loc[t].op \in {"commit", "swap"}
    /\ loc[t].status = "raised"

\* The tables after the statements of a script have been applied in order.
RECURSIVE ApplyAll(_, _)
ApplyAll(tbls, stmts) ==
  IF stmts = <<>> THEN tbls ELSE ApplyAll(StmtEffect(tbls, Head(stmts)), Tail(stmts))

\* A swap that raised left the tables as its executed statements made them.
NoRollback(t) ==
  (SwapFinished(t) /\ loc[t].status = "raised")
  => tables = ApplyAll(loc[t].preSwap,
                       SubSeq(SwapCommands(loc[t].temp, loc[t].final), 1, FailedStep(loc[t]) - 1))

\* t has finished the retry of a swap whose first attempt, started with the
\* staging and the final table in place, was stopped by an outage at one of its
\* three statements; the retry met no outage.
RetryFinished(t) ==
  /\ SwapFinished(t)
  /\ loc[t].prior.step \in 1..3
  /\ loc[t].prior.err = AccessDeniedErr
  /\ loc[t].prior.data # Blank.prior.data
  /\ NoOutage(t)

\* C11: a swap that failed at one of its three steps is not rolled back, and
\* the same swap invoked again from the state it left succeeds and ends with the
\* staging data as the only table under the final name, no deletion-named and
\* no staging table left.
C11_RetriedSwapSucceeds ==
  \A t \in Threads :
    /\ NoRollback(t)
    /\ RetryFinished(t)
       => /\ loc[t].status = "ok"
          /\ loc[t].final \in DOMAIN tables
          /\ tables[loc[t].final] = loc[t].prior.data
          /\ loc[t].temp \notin DOMAIN tables
          /\ DeletionName(loc[t].final) \notin DOMAIN tables

\* ------------------------------------------------------------ C12
\* A swap has been submitted for a final name that bore a table, with its
\* staging table present, and its script has not ended.
SwapRunning(t) ==
  /\ pc[t] = "swap_exec"
  /\ loc[t].final \in DOMAIN loc[t].preSwap
  /\ loc[t].temp \in DOMAIN loc[t].preSwap

\* C12: while a swap runs for a final name that already has a table, every
\* state a concurrent reader can observe has a table under the final name, and
\* that table holds either the complete pre-swap content or the complete
\* staging content.
C12_NoIntermediateStateObservable ==
  \A t \in Threads :
    SwapRunning(t) =>
      /\ loc[t].final \in DOMAIN tables
      /\ tables[loc[t].final] \in {loc[t].preSwap[loc[t].final], loc[t].preSwap[loc[t].temp]}

\* ------------------------------------------------------------ C13
\* The thread's swap has been invoked and has not ended.
InSwap(t) == pc[t] \in {"swap_check", "swap_exec"}

\* The thread is inside a commitBatch call for the stream.
InBatch(t, stream) ==
  /\ pc[t] \notin {"idle", "done"}
  /\ loc[t].commit
  /\ loc[t].stream = stream

\* No final table name is the target of two swaps in flight.
OneSwapPerFinal ==
  \A t, u \in Threads :
    (t # u /\ InSwap(t) /\ InSwap(u)) => loc[t].final # loc[u].final

\* The caller never has two batches of one stream in progress at once.
CallerSerializes ==
  \A t, u \in Threads, s \in Streams : (InBatch(t, s) /\ InBatch(u, s)) => t = u

EnvironmentErrs == {AccessDeniedErr, JobFailedErr, CredentialsErr}

\* The second of two commitBatch runs with the same inputs has ended, and the
\* environment failed neither run.
SecondRunFinished(t) ==
  /\ pc[t] = "done"
  /\ loc[t].commit
  /\ loc[t].first.status # "none"
  /\ loc[t].first.err \notin EnvironmentErrs
  /\ loc[t].err \notin EnvironmentErrs

\* C14: commitBatch run twice in sequence with the same stream, batch id and
\* files succeeds both times, and after the second run the final table holds
\* the same rows as after the first run (the second run replaces, the staging
\* name is free again).
C14_SecondRunSameFinal ==
  \A t \in Threads :
    SecondRunFinished(t) =>
      /\ loc[t].first.status = "ok"
      /\ loc[t].status = "ok"
      /\ FinalName(loc[t].stream) \in DOMAIN tables
      /\ tables[FinalName(loc[t].stream)] = loc[t].first.data

\* The second run of a batch whose first run succeeded succeeds and leaves the
\* same rows under the final name.
RepeatedOnExistingFinal ==
  \A t \in Threads :
    (SecondRunFinished(t) /\ loc[t].first.status = "ok") =>
      /\ loc[t].status = "ok"
      /\ FinalName(loc[t].stream) \in DOMAIN tables
      /\ tables[FinalName(loc[t].stream)] = loc[t].first.data

\* ------------------------------------------------------------ C15
\* Once the credentials are cached, no step reads the credential source or
\* replaces the cached value.
C15_Steps ==
  credentials # None => (credentials' = credentials /\ credReads' = credReads)

\* A getCredentials call that has returned gave the cached value.
C15_ReturnsCached ==
  \A t \in Threads :
    (pc[t] = "done" /\ loc[t].op = "get_credentials" /\ loc[t].status = "ok") =>
      (credentials # None /\ loc[t].value = credentials)

\* C15: after the first successful getCredentials, every later call, direct or
\* inside loadBatch and tableExists, returns the same cached value and does not
\* consult the credentials file or the ambient discovery again.
C15_CredentialsCached == []C15_ReturnsCached /\ [][C15_Steps]_vars

\* A getCredentials call found the credentials cached by an earlier call and
\* returned them.
C15_Witness ==
  \E t \in Threads :
    /\ pc[t] = "done"
    /\ loc[t].op = "get_credentials"
    /\ loc[t].hit
    /\ loc[t].status = "ok"
    /\ credReads > 0

\* ------------------------------------------------------------ C16
\* A resolve call has returned.
Resolved(t) == pc[t] = "done" /\ loc[t].op = "resolve"

\* The warehouse type the override policy gives a descriptor.
ExpectedType(d) ==
  IF GenericType(d) = "VARCHAR" THEN "String"
  ELSE IF GenericType(d) = "BIGINT" THEN "INT64"
  ELSE GenericType(d)

\* C16: resolve is total and deterministic: every call returns a type, two
\* calls with the same descriptor return the same type, a descriptor whose
\* generic mapping is VARCHAR resolves to 'String', one whose generic mapping is
\* BIGINT resolves to 'INT64', and every other descriptor resolves to the name
\* of its generic type.
C16_ResolveDeterministicTotal ==
  /\ \A t \in Threads :
       Resolved(t) =>
         /\ loc[t].status = "ok"
         /\ loc[t].value = ExpectedType(loc[t].descriptor)
  /\ \A t, u \in Threads :
       (Resolved(t) /\ Resolved(u) /\ loc[t].descriptor = loc[u].descriptor) =>
         loc[t].value = loc[u].value

\* Two calls with the same integer descriptor have both returned.
C16_Witness ==
  \E t, u \in Threads :
    /\ t # u
    /\ Resolved(t) /\ Resolved(u)
    /\ loc[t].descriptor = loc[u].descriptor
    /\ loc[t].descriptor.type = "integer"
    /\ loc[t].value = "INT64"

\* ------------------------------------------------------------ C17
\* A listTables call has returned.
Listing(t) == pc[t] = "done" /\ loc[t].op = "list_tables" /\ loc[t].status = "ok"

\* C17: for the list of names the warehouse returned, listTables returns a list
\* of the same length and order in which each name that starts with
\* '<schema>.' has lost that prefix and every other name is unchanged; no
\* returned name still starts with the prefix.
C17_ListStripsSchemaPrefix ==
  \A t \in Threads :
    Listing(t) =>
      LET given == loc[t].listed
          out == loc[t].value
      IN /\ Len(out) = Len(given)
         /\ \A i \in 1..Len(given) :
              /\ StartsWith(given[i], schema_prefix) => schema_prefix \o out[i] = given[i]
              /\ ~StartsWith(given[i], schema_prefix) => out[i] = given[i]
              /\ ~StartsWith(out[i], schema_prefix)

\* The warehouse listed one name qualified and another one bare.
C17_Witness ==
  \E t \in Threads :
    /\ Listing(t)
    /\ \E i, j \in 1..Len(loc[t].listed) :
         /\ StartsWith(loc[t].listed[i], schema_prefix)
         /\ ~StartsWith(loc[t].listed[j], schema_prefix)

\* ------------------------------------------------------------ C18
\* The thread's ensureNamespace call found the memo unset, sent its create
\* command and has returned or raised.
EnsureRaced(t) ==
  /\ pc[t] = "done"
  /\ loc[t].op = "ensure"
  /\ loc[t].sent = <<CreateSchemaStmt>>

\* C18: when concurrent ensureNamespace calls on one instance all find the memo
\* unset and the warehouse answers every create command with success or with
\* "already exists", every call returns without error, the namespace exists and
\* the memo is true once all have returned.
C18_RacingEnsuresAbsorbed ==
  \A t, u \in Threads :
    (/\ t # u
     /\ EnsureRaced(t) /\ EnsureRaced(u)
     /\ \A i \in 1..Len(createLog) : Benign(createLog[i])) =>
      /\ loc[t].status = "ok" /\ loc[u].status = "ok"
      /\ nsExists
      /\ schema_exists = "True"

\* Two racing calls have both returned; the second creator was told that the
\* namespace the first one created already exists.
C18_Witness ==
  \E t, u \in Threads :
    /\ t # u
    /\ EnsureRaced(t) /\ EnsureRaced(u)
    /\ createLog = <<NoErr, AlreadyExistsErr>>

\* ------------------------------------------------------------ C19
\* The names a swap may read or change.
SwapNames(t) == {loc[t].final, loc[t].temp, DeletionName(loc[t].final)}

\* The swap of thread t has sent its script; it is running, or has ended with
\* or without an error.
SwapSent(t) ==
  /\ loc[t].stage = "swap"
  /\ pc[t] \in {"swap_exec", "done"}
  /\ \E i \in 1..Len(loc[t].sent) : loc[t].sent[i].kind = "rename"

\* C19: a swap reads or changes only the tables named final, staging and
\* '<final>_deleteme': at every step of the script, and after its success or
\* its failure, every other table of the namespace exists with the name and
\* content it had when the swap began.
C19_SwapFrame ==
  \A t \in Threads :
    SwapSent(t) =>
      \A n \in (DOMAIN tables \cup DOMAIN loc[t].preSwap) \ SwapNames(t) :
        /\ n \in DOMAIN tables
        /\ n \in DOMAIN loc[t].preSwap
        /\ tables[n] = loc[t].preSwap[n]

\* A swap for stream users has gone through its renames, successfully or not,
\* while the final table of stream orders stood by.
C19_Witness ==
  \E t \in Threads :
    /\ SwapSent(t)
    /\ pc[t] = "done"
    /\ tables # loc[t].preSwap
    /\ \E n \in DOMAIN tables : n \notin SwapNames(t)

\* ------------------------------------------------------------ C20
\* A loadBatch call with an empty file sequence has returned.
EmptyLoadReturned(t) ==
  /\ pc[t] = "done"
  /\ loc[t].op = "load"
  /\ loc[t].files = <<>>
  /\ loc[t].status = "ok"

\* It created the staging table, left it empty, submitted no job and returned
\* the staging identity.
C20_EmptyBatch ==
  \A t \in Threads :
    EmptyLoadReturned(t) =>
      /\ loc[t].jobs = <<>>
      /\ loc[t].value = TempName(loc[t].stream, loc[t].batch)
      /\ loc[t].value \notin DOMAIN loc[t].pre
      /\ loc[t].value \in DOMAIN tables
      /\ tables[loc[t].value] = NewTable(loc[t].value)

\* Whenever a load job is submitted, the batch's staging table has been created
\* and is the job's destination.
C20_Steps ==
  \A t \in Threads :
    Len(loc'[t].jobs) > Len(loc[t].jobs) =>
      /\ loc[t].temp = TempName(loc[t].stream, loc[t].batch)
      /\ loc[t].temp \notin DOMAIN loc[t].pre
      /\ loc[t].temp \in DOMAIN tables
      /\ loc'[t].jobs[Len(loc'[t].jobs)].destination = loc[t].temp

\* C20: loadBatch with an empty file sequence creates the staging table,
\* submits no load job and returns the staging identity of that empty table;
\* for every batch size the staging table is created before the first load job
\* of the batch is submitted.
C20_StagingBeforeLoads == []C20_EmptyBatch /\ [][C20_Steps]_vars

\* An empty batch has returned its staging identity, and its staging table is
\* in the dataset.
C20_Witness ==
  \E t \in Threads :
    /\ EmptyLoadReturned(t)
    /\ loc[t].value \in DOMAIN tables
    /\ loc[t].jobs = <<>>

====
